---- MODULE Spec2Model ----
(***************************************************************************)
(* AlohaType: the triangular-grid glyph renderer (components/GlyphDisplay) *)
(* and the state around it.                                                *)
(*                                                                         *)
(* Numbers.  The component computes in JavaScript numbers; the model uses  *)
(* exact fixed-point arithmetic.  Every coordinate of the model is the     *)
(* pixel coordinate multiplied by PaddingDivisor (= 10), so that the 10%   *)
(* padding of the auto-cropped viewBox is an integer.  TRIANGLE_SIZE is    *)
(* even, so TRIANGLE_SIZE / 2 is exact.  IEEE-754 rounding of `* 0.1` is   *)
(* not modelled.                                                           *)
(***************************************************************************)
EXTENDS Integers, Sequences, FiniteSets, TLC

(***************************************************************************)
(* Configuration constants.  `../constants` is imported by every component *)
(* but its file is not among the sources.  TRIANGLE_SIZE and               *)
(* TRIANGLE_HEIGHT are those of the specification's scenario (section 8);  *)
(* the canvas follows the relations of section 6, which are also those of  *)
(* GLYPH_BASE_WIDTH and GLYPH_HEIGHT in TypeTester.renderTextToBase64.     *)
(* The grid dimensions are model bounds: the geometry is checked on small  *)
(* grids with different numbers of rows and columns.                       *)
(***************************************************************************)
GRID_ROWS == 3

GRID_COLS == 4

TRIANGLE_SIZE == 20

TRIANGLE_HEIGHT == 17

CANVAS_WIDTH == (GRID_COLS * TRIANGLE_SIZE) \div 2 + TRIANGLE_SIZE \div 2

CANVAS_HEIGHT == GRID_ROWS * TRIANGLE_HEIGHT

(* `width * 0.1`: the padding is one tenth of the extent.  Also the        *)
(* fixed-point scale of every coordinate of the model.                     *)
PaddingDivisor == 10

(* Largest number of keys of a gridState that is built key by key.         *)
MaxActive == 3

(* A pixel length in model units. *)
Px(n) == n * PaddingDivisor

(***************************************************************************)
(* Cell keys: the template literal `${r}-${c}`, as a sequence of           *)
(* characters.                                                             *)
(***************************************************************************)
DigitChars == <<"0", "1", "2", "3", "4", "5", "6", "7", "8", "9">>

RECURSIVE NumStr(_)
NumStr(n) ==
  IF n < 10 THEN <<DigitChars[n + 1]>>
  ELSE NumStr(n \div 10) \o <<DigitChars[(n % 10) + 1]>>

KeyNoSeparator(r, c) == NumStr(r) \o NumStr(c)

Key(r, c) == NumStr(r) \o <<"-">> \o NumStr(c)

Rows == 0 .. GRID_ROWS - 1

Cols == 0 .. GRID_COLS - 1

ValidKeys == {Key(r, c) : r \in Rows, c \in Cols}

(* Keys a gridState may hold that name no cell of the grid (gridState is   *)
(* any string[]: an imported document is not validated).                   *)
BadKeys == {Key(GRID_ROWS, 0), Key(0, GRID_COLS), <<"x">>}

KeyUniverse == ValidKeys \cup BadKeys

(***************************************************************************)
(* GlyphDisplay.getPoints: the three vertices of the triangle of cell      *)
(* (r, c), in the order of the SVG `points` attribute.                     *)
(***************************************************************************)
isUpRowOnly(r, c) == r % 2 = 0

isUp(r, c) == (r + c) % 2 = 0

xBaseFullStep(c) == c * Px(TRIANGLE_SIZE)

xBaseOf(c) == (c * Px(TRIANGLE_SIZE)) \div 2

yBaseOverlapping(r) == (r * Px(TRIANGLE_HEIGHT)) \div 2

yBaseOf(r) == r * Px(TRIANGLE_HEIGHT)

getPointsFlatApex(r, c) ==
  LET xBase == xBaseOf(c)
      yBase == yBaseOf(r)
  IN  IF isUp(r, c)
      THEN << <<xBase, yBase + Px(TRIANGLE_HEIGHT)>>,
              <<xBase + Px(TRIANGLE_SIZE) \div 2, yBase + Px(TRIANGLE_HEIGHT)>>,
              <<xBase + Px(TRIANGLE_SIZE), yBase + Px(TRIANGLE_HEIGHT)>> >>
      ELSE << <<xBase, yBase>>,
              <<xBase + Px(TRIANGLE_SIZE), yBase>>,
              <<xBase + Px(TRIANGLE_SIZE) \div 2, yBase>> >>

getPointsFullStep(r, c) ==
  LET xBase == c * Px(TRIANGLE_SIZE)
      yBase == yBaseOf(r)
  IN  IF isUp(r, c)
      THEN << <<xBase, yBase + Px(TRIANGLE_HEIGHT)>>,
              <<xBase + Px(TRIANGLE_SIZE) \div 2, yBase>>,
              <<xBase + Px(TRIANGLE_SIZE), yBase + Px(TRIANGLE_HEIGHT)>> >>
      ELSE << <<xBase, yBase>>,
              <<xBase + Px(TRIANGLE_SIZE), yBase>>,
              <<xBase + Px(TRIANGLE_SIZE) \div 2, yBase + Px(TRIANGLE_HEIGHT)>> >>

getPointsSwapped(r, c) ==
  LET xBase == xBaseOf(c)
      yBase == yBaseOf(r)
  IN  IF isUp(r, c)
      THEN << <<xBase, yBase>>,
              <<xBase + Px(TRIANGLE_SIZE), yBase>>,
              <<xBase + Px(TRIANGLE_SIZE) \div 2, yBase + Px(TRIANGLE_HEIGHT)>> >>
      ELSE << <<xBase, yBase + Px(TRIANGLE_HEIGHT)>>,
              <<xBase + Px(TRIANGLE_SIZE) \div 2, yBase>>,
              <<xBase + Px(TRIANGLE_SIZE), yBase + Px(TRIANGLE_HEIGHT)>> >>

getPoints(r, c) ==
  LET xBase == xBaseOf(c)
      yBase == yBaseOf(r)
  IN  IF isUp(r, c)
      THEN << <<xBase, yBase + Px(TRIANGLE_HEIGHT)>>,
              <<xBase + Px(TRIANGLE_SIZE) \div 2, yBase>>,
              <<xBase + Px(TRIANGLE_SIZE), yBase + Px(TRIANGLE_HEIGHT)>> >>
      ELSE << <<xBase, yBase>>,
              <<xBase + Px(TRIANGLE_SIZE), yBase>>,
              <<xBase + Px(TRIANGLE_SIZE) \div 2, yBase + Px(TRIANGLE_HEIGHT)>> >>

(***************************************************************************)
(* GlyphDisplay: the scan of the grid.  Infinity is modelled by a number   *)
(* above every row and column index, which is all it is compared with.     *)
(***************************************************************************)
Infinity == GRID_ROWS + GRID_COLS

InitialBounds ==
  [minC |-> Infinity, maxC |-> -Infinity, minR |-> Infinity, maxR |-> -Infinity]

TrackBoundsElseIf(b, r, c) ==
  [minC |-> IF c < b.minC THEN c ELSE b.minC,
   maxC |-> IF c < b.minC THEN b.maxC ELSE IF c > b.maxC THEN c ELSE b.maxC,
   minR |-> IF r < b.minR THEN r ELSE b.minR,
   maxR |-> IF r < b.minR THEN b.maxR ELSE IF r > b.maxR THEN r ELSE b.maxR]

TrackBounds(b, r, c) ==
  [minC |-> IF c < b.minC THEN c ELSE b.minC,
   maxC |-> IF c > b.maxC THEN c ELSE b.maxC,
   minR |-> IF r < b.minR THEN r ELSE b.minR,
   maxR |-> IF r > b.maxR THEN r ELSE b.maxR]

(* The scan with the inner loop stopping one column early. *)
RECURSIVE ScanGridOffByOne(_, _, _, _)
ScanGridOffByOne(i, cells, crop, acc) ==
  IF i = GRID_ROWS * GRID_COLS THEN acc
  ELSE LET r == i \div GRID_COLS
           c == i % GRID_COLS
           key == Key(r, c)
       IN  IF key \in cells /\ c < GRID_COLS - 1
           THEN ScanGridOffByOne(i + 1, cells, crop,
                  [bounds |-> IF crop THEN TrackBounds(acc.bounds, r, c)
                                      ELSE acc.bounds,
                   polygons |-> Append(acc.polygons,
                                  [key |-> key, points |-> getPoints(r, c)])])
           ELSE ScanGridOffByOne(i + 1, cells, crop, acc)

(* The nested loops `for r ... for c ...`, cell i = r * GRID_COLS + c. *)
RECURSIVE ScanGrid(_, _, _, _)
ScanGrid(i, cells, crop, acc) ==
  IF i = GRID_ROWS * GRID_COLS THEN acc
  ELSE LET r == i \div GRID_COLS
           c == i % GRID_COLS
           key == Key(r, c)
       IN  IF key \in cells
           THEN ScanGrid(i + 1, cells, crop,
                  [bounds |-> IF crop THEN TrackBounds(acc.bounds, r, c)
                                      ELSE acc.bounds,
                   polygons |-> Append(acc.polygons,
                                  [key |-> key, points |-> getPoints(r, c)])])
           ELSE ScanGrid(i + 1, cells, crop, acc)

FixedViewBox ==
  [minX |-> 0, minY |-> 0,
   width |-> Px(CANVAS_WIDTH), height |-> Px(CANVAS_HEIGHT)]

CropViewBoxLeftAnchor(b) ==
  LET minX == (b.minC * Px(TRIANGLE_SIZE)) \div 2
      maxX == (b.maxC * Px(TRIANGLE_SIZE)) \div 2
      minY == b.minR * Px(TRIANGLE_HEIGHT)
      maxY == b.maxR * Px(TRIANGLE_HEIGHT)
      width == maxX - minX
      height == maxY - minY
      paddingX == width \div PaddingDivisor
      paddingY == height \div PaddingDivisor
  IN  [minX |-> minX - paddingX, minY |-> minY - paddingY,
       width |-> width + paddingX * 2, height |-> height + paddingY * 2]

CropViewBoxNoPadding(b) ==
  LET minX == (b.minC * Px(TRIANGLE_SIZE)) \div 2
      maxX == (b.maxC * Px(TRIANGLE_SIZE)) \div 2 + Px(TRIANGLE_SIZE)
      minY == b.minR * Px(TRIANGLE_HEIGHT)
      maxY == (b.maxR + 1) * Px(TRIANGLE_HEIGHT)
  IN  [minX |-> minX, minY |-> minY,
       width |-> maxX - minX, height |-> maxY - minY]

CropViewBox(b) ==
  LET minX == (b.minC * Px(TRIANGLE_SIZE)) \div 2
      maxX == (b.maxC * Px(TRIANGLE_SIZE)) \div 2 + Px(TRIANGLE_SIZE)
      minY == b.minR * Px(TRIANGLE_HEIGHT)
      maxY == (b.maxR + 1) * Px(TRIANGLE_HEIGHT)
      width == maxX - minX
      height == maxY - minY
      paddingX == width \div PaddingDivisor
      paddingY == height \div PaddingDivisor
  IN  [minX |-> minX - paddingX, minY |-> minY - paddingY,
       width |-> width + paddingX * 2, height |-> height + paddingY * 2]

ViewBoxNoEmptyCheck(crop, scan) ==
  IF crop THEN CropViewBox(scan.bounds) ELSE FixedViewBox

ViewBoxOf(crop, scan) ==
  IF crop /\ Len(scan.polygons) > 0
  THEN CropViewBox(scan.bounds)
  ELSE FixedViewBox

VARIABLES
  activeCells,   \* new Set(gridState): the keys of the gridState prop
  autoCrop,      \* the autoCrop prop
  polygons,      \* the <polygon> elements of the last render, in order
  viewBox        \* the viewBox of the last render

VARIABLES
  glyphs,          \* App: glyphs, one GlyphData per character
  editingGlyph,    \* App: editingGlyph, a character or null
  edCells,         \* GlyphEditor: activeCells, a Set in insertion order
  isDragging,      \* GlyphEditor: isDragging
  dragTargetState, \* GlyphEditor: dragTargetState
  reading,         \* the file a FileReader is reading, or none
  lastAlert,       \* the alert() raised by the last step, or none
  exported         \* the document downloaded by the last step, or none

VARIABLES
  keyCoords,       \* the coordinates toggled on, as the user sees them
  keyCells,        \* GlyphEditor: activeCells built by toggleCell alone
  keyDrawn         \* handleSave: the coordinates parsed from the keys

VARIABLES
  text,            \* TypeTester: text
  prompt,          \* TypeTester: prompt
  apiKey,          \* whether process.env.API_KEY is set in this build
  isGenerating,    \* TypeTester: isGenerating
  generatedImage,  \* TypeTester: generatedImage, an image or null
  apiKeyError,     \* App: apiKeyError
  genLog           \* the calls of handleGenerateBanner so far: the requests
                   \* each sent and how it ended

VARIABLES
  inst             \* GlyphDisplay calls in progress side by side: the props
                   \* and the locals of each

VARIABLES
  drag,            \* history of the drag gesture under way in the editor
  session          \* history of the editor session: the glyphs when the
                   \* editor was opened, whether cells were changed since

displayVars == <<activeCells, autoCrop, polygons, viewBox>>

appVars ==
  <<glyphs, editingGlyph, edCells, isDragging, dragTargetState, reading,
    lastAlert, exported>>

keyVars == <<keyCoords, keyCells, keyDrawn>>

genVars ==
  <<text, prompt, apiKey, isGenerating, generatedImage, apiKeyError, genLog>>

history == <<drag, session>>

vars == <<displayVars, appVars, keyVars, genVars, inst, history>>

nonDisplayVars == <<appVars, keyVars, genVars, inst, history>>

nonAppVars == <<displayVars, keyVars, genVars, inst>>

nonKeyVars == <<displayVars, appVars, genVars, inst, history>>

nonGenVars == <<displayVars, appVars, keyVars, inst, history>>

nonInstVars == <<displayVars, appVars, keyVars, genVars, history>>

(***************************************************************************)
(* GlyphDisplay as a state machine: each step is one render.              *)
(***************************************************************************)
(* What one render with the props (cells, crop) returns. *)
RenderOutput(cells, crop) ==
  LET scan == ScanGrid(0, cells, crop,
                       [bounds |-> InitialBounds, polygons |-> <<>>])
  IN  [polygons |-> scan.polygons, viewBox |-> ViewBoxOf(crop, scan)]

(* One render of the component with the props (cells, crop). *)
GlyphDisplay(cells, crop) ==
  LET out == RenderOutput(cells, crop)
  IN  /\ activeCells' = cells
      /\ autoCrop' = crop
      /\ polygons' = out.polygons
      /\ viewBox' = out.viewBox
      /\ UNCHANGED nonDisplayVars

(* The first render.  Both callers (GlyphCard with autoCrop, TypeTester     *)
(* without) mount the component only for a gridState that is not empty:     *)
(* here the glyph of the one cell (0, 0).                                   *)
DisplayInit ==
  /\ activeCells = {Key(0, 0)}
  /\ autoCrop \in BOOLEAN
  /\ polygons = RenderOutput(activeCells, autoCrop).polygons
  /\ viewBox = RenderOutput(activeCells, autoCrop).viewBox

(* The component is rendered again with a gridState that has one more key. *)
RenderWithKeyAdded(k) ==
  /\ k \notin activeCells
  /\ Cardinality(activeCells) < MaxActive
  /\ GlyphDisplay(activeCells \cup {k}, autoCrop)

(* ... with a gridState that has one key less. *)
RenderWithKeyRemoved(k) ==
  /\ k \in activeCells
  /\ Cardinality(activeCells) <= MaxActive
  /\ GlyphDisplay(activeCells \ {k}, autoCrop)

(* ... with an empty gridState. *)
RenderEmpty == GlyphDisplay({}, autoCrop)

(* ... with the gridState that holds every cell of the grid. *)
RenderFullGrid == GlyphDisplay(ValidKeys, autoCrop)

(* ... with the other value of autoCrop. *)
RenderWithAutoCrop(b) ==
  /\ b # autoCrop
  /\ GlyphDisplay(activeCells, b)

(***************************************************************************)
(* JavaScript values as far as App handles them: the result of JSON.parse  *)
(* and the gridState of a glyph.  An array of keys holds the keys          *)
(* themselves.                                                             *)
(***************************************************************************)
JUndefined == [t |-> "undefined"]

JNull == [t |-> "null"]

JNumber(n) == [t |-> "number", v |-> n]

JString(str) == [t |-> "string", v |-> str]

JArray(seq) == [t |-> "array", v |-> seq]

JObject(fields) == [t |-> "object", v |-> fields]

(* `!!j` *)
Truthy(j) ==
  CASE j.t \in {"undefined", "null"} -> FALSE
    [] j.t = "number" -> j.v # 0
    [] j.t = "string" -> j.v # ""
    [] OTHER -> TRUE

(* `typeof j` *)
TypeOf(j) ==
  CASE j.t \in {"null", "array", "object"} -> "object"
    [] OTHER -> j.t

(* `j[name]` for a name that is no index and no built-in property; j is    *)
(* neither null nor undefined.                                             *)
GetProp(j, name) ==
  IF j.t = "object" /\ name \in DOMAIN j.v THEN j.v[name] ELSE JUndefined

(* `j.length > 0` *)
LengthPositive(j) ==
  CASE j.t = "array" -> Len(j.v) > 0
    [] j.t = "string" -> j.v # ""
    [] OTHER -> FALSE

(***************************************************************************)
(* A JavaScript Set of keys, in insertion order.                           *)
(***************************************************************************)
Range(seq) == {seq[i] : i \in 1 .. Len(seq)}

SetAdd(set, k) == IF k \in Range(set) THEN set ELSE Append(set, k)

SetDelete(set, k) == SelectSeq(set, LAMBDA x : x # k)

RECURSIVE NewSetFrom(_, _)
NewSetFrom(set, seq) ==
  IF seq = <<>> THEN set ELSE NewSetFrom(SetAdd(set, Head(seq)), Tail(seq))

(* `new Set(list || [])` *)
NewSet(j) == IF j.t = "array" THEN NewSetFrom(<<>>, j.v) ELSE <<>>

(***************************************************************************)
(* App.  The alphabet and the default designs are in the constants file,   *)
(* which is not among the sources: two characters, one with a default      *)
(* design and one without.                                                 *)
(***************************************************************************)
FULL_ALPHABET == <<"A", "E">>

Chars == Range(FULL_ALPHABET)

DEFAULT_GRID_STATES == [A |-> JArray(<<Key(0, 0), Key(0, 1)>>)]

DefaultGridState(ch) == GetProp(JObject(DEFAULT_GRID_STATES), ch)

INITIAL_GLYPHS ==
  [ch \in Chars |->
     [char |-> ch, imageUrl |-> "null",
      gridState |-> DefaultGridState(ch), status |-> "pending"]]

NoGlyph == "null"

NoFile == [parses |-> FALSE, json |-> JUndefined, none |-> TRUE]

NoExport == [version |-> 0]

(* The files the user picks in the import dialog. *)
TextFile == [parses |-> FALSE, json |-> JUndefined, none |-> FALSE]

JsonFile(j) == [parses |-> TRUE, json |-> j, none |-> FALSE]

FontFile(g) == JsonFile(JObject([version |-> JNumber(1), glyphs |-> g]))

ImportFiles ==
  { TextFile,
    JsonFile(JNull),
    JsonFile(JObject([version |-> JNumber(1)])),
    FontFile(JNull),
    FontFile(JNumber(5)),
    FontFile(JString("A")),
    FontFile(JArray(<<Key(0, 1)>>)),
    FontFile(JObject([A |-> JArray(<<Key(0, 1)>>)])),
    FontFile(JObject([A |-> JArray(<<>>),
                      E |-> JArray(<<Key(1, 1), Key(0, 0), Key(1, 1)>>)])),
    FontFile(JObject([E |-> JArray(<<Key(GRID_ROWS, 0)>>)])),
    FontFile(JObject([A |-> JNull, E |-> JArray(<<Key(0, 0)>>)])) }

(* The cells the user presses or enters in the editor. *)
ClickCells == {<<0, 0>>, <<1, 1>>}

(* handleFileChange: `!json.glyphs || typeof json.glyphs !== 'object'` *)
IsInvalidFont(json) ==
  \/ ~Truthy(GetProp(json, "glyphs"))
  \/ TypeOf(GetProp(json, "glyphs")) # "object"

(* handleFileChange: the callback of setGlyphs for one glyph. *)
ImportGlyphClearsMissing(g, newGridState) ==
  [g EXCEPT !.gridState = newGridState, !.imageUrl = "null"]

ImportGlyph(g, newGridState) ==
  IF Truthy(newGridState)
  THEN [g EXCEPT !.gridState = newGridState, !.imageUrl = "null"]
  ELSE g

(* reader.onload: the glyphs and the alert it leaves.  JSON.parse of a     *)
(* text that is no JSON, and `json.glyphs` of null, throw into the catch.  *)
OnLoad(file, gs) ==
  IF ~file.parses \/ file.json.t \in {"null", "undefined"}
  THEN [glyphs |-> gs, alert |-> "Failed to import font file"]
  ELSE IF IsInvalidFont(file.json)
  THEN [glyphs |-> gs, alert |-> "Invalid font file"]
  ELSE [glyphs |->
          [ch \in DOMAIN gs |->
             ImportGlyph(gs[ch], GetProp(GetProp(file.json, "glyphs"), ch))],
        alert |-> "none"]

(* handleExportFont: exportData, without its timestamp. *)
ExportDataAll(gs) ==
  [version |-> 1,
   glyphs |-> [ch \in DOMAIN gs |-> gs[ch].gridState]]

ExportData(gs) ==
  [version |-> 1,
   glyphs |->
     [ch \in {c \in DOMAIN gs :
                Truthy(gs[c].gridState) /\ LengthPositive(gs[c].gridState)}
        |-> gs[ch].gridState]]

(* GlyphEditor.toggleCell; forceState is "undefined", TRUE or FALSE. *)
toggleCellAlwaysAdd(cells, r, c, forceState) == SetAdd(cells, Key(r, c))

toggleCell(cells, r, c, forceState) ==
  LET key == Key(r, c)
      currentState == key \in Range(cells)
      newState == IF forceState # "undefined" THEN forceState = "true"
                  ELSE ~currentState
  IN  IF newState THEN SetAdd(cells, key) ELSE SetDelete(cells, key)

BoolStr(b) == IF b THEN "true" ELSE "false"

EditorUnmounted ==
  /\ edCells' = <<>>
  /\ isDragging' = FALSE
  /\ dragTargetState' = TRUE

NoOutput == lastAlert' = "none" /\ exported' = NoExport

AppInit ==
  /\ glyphs = INITIAL_GLYPHS
  /\ editingGlyph = NoGlyph
  /\ edCells = <<>>
  /\ isDragging = FALSE
  /\ dragTargetState = TRUE
  /\ reading = NoFile
  /\ lastAlert = "none"
  /\ exported = NoExport

(* App.handleEditClick: the editor is mounted with the glyph's design.  The *)
(* editor is a modal overlay: no card can be clicked while it is open.      *)
handleEditClick(ch) ==
  /\ editingGlyph = NoGlyph
  /\ editingGlyph' = ch
  /\ edCells' = NewSet(IF Truthy(glyphs[ch].gridState)
                       THEN glyphs[ch].gridState
                       ELSE DefaultGridState(ch))
  /\ isDragging' = FALSE
  /\ dragTargetState' = TRUE
  /\ NoOutput
  /\ UNCHANGED <<glyphs, reading, nonAppVars>>

(* GlyphEditor.handleMouseDown *)
handleMouseDown(r, c) ==
  /\ editingGlyph # NoGlyph
  /\ LET willBeActive == Key(r, c) \notin Range(edCells)
     IN  /\ isDragging' = TRUE
         /\ dragTargetState' = willBeActive
         /\ edCells' = toggleCell(edCells, r, c, BoolStr(willBeActive))
  /\ NoOutput
  /\ UNCHANGED <<glyphs, editingGlyph, reading, nonAppVars>>

(* handleMouseEnter toggling the entered cell instead of painting it. *)
handleMouseEnterToggles(r, c) ==
  /\ editingGlyph # NoGlyph
  /\ edCells' = IF isDragging
                THEN toggleCell(edCells, r, c, "undefined")
                ELSE edCells
  /\ NoOutput
  /\ UNCHANGED <<glyphs, editingGlyph, isDragging, dragTargetState, reading,
                 nonAppVars>>

(* GlyphEditor.handleMouseEnter *)
handleMouseEnter(r, c) ==
  /\ editingGlyph # NoGlyph
  /\ edCells' = IF isDragging
                THEN toggleCell(edCells, r, c, BoolStr(dragTargetState))
                ELSE edCells
  /\ NoOutput
  /\ UNCHANGED <<glyphs, editingGlyph, isDragging, dragTargetState, reading,
                 nonAppVars>>

(* GlyphEditor.handleMouseUp (mouse-up on the overlay, mouse-leave of the   *)
(* grid).                                                                   *)
handleMouseUp ==
  /\ editingGlyph # NoGlyph
  /\ isDragging' = FALSE
  /\ NoOutput
  /\ UNCHANGED <<glyphs, editingGlyph, edCells, dragTargetState, reading,
                 nonAppVars>>

(* GlyphEditor.handleClear *)
handleClear ==
  /\ editingGlyph # NoGlyph
  /\ edCells' = <<>>
  /\ NoOutput
  /\ UNCHANGED <<glyphs, editingGlyph, isDragging, dragTargetState, reading,
                 nonAppVars>>

(* updateGlyph writing the update into every glyph. *)
updateGlyphAll(gs, ch, gridState) ==
  [g \in DOMAIN gs |-> [gs[g] EXCEPT !.gridState = gridState]]

(* App.updateGlyph *)
updateGlyph(gs, ch, gridState) ==
  [g \in DOMAIN gs |->
     IF gs[g].char = ch THEN [gs[g] EXCEPT !.gridState = gridState] ELSE gs[g]]

(* App.handleEditorSave(_, gridState) with editingGlyph = editing: the      *)
(* glyphs and the editingGlyph it leaves.                                   *)
handleEditorSave(editing, gs, gridState) ==
  IF editing = NoGlyph
  THEN [glyphs |-> gs, editingGlyph |-> editing]
  ELSE [glyphs |-> updateGlyph(gs, editing, gridState),
        editingGlyph |-> NoGlyph]

(* GlyphEditor.handleSave and App.handleEditorSave: Array.from(activeCells) *)
(* becomes the glyph's gridState and the editor closes.                     *)
handleSave ==
  /\ editingGlyph # NoGlyph
  /\ LET saved == handleEditorSave(editingGlyph, glyphs, JArray(edCells))
     IN  /\ editingGlyph' = saved.editingGlyph
         /\ glyphs' = saved.glyphs
  /\ EditorUnmounted
  /\ NoOutput
  /\ UNCHANGED <<reading, nonAppVars>>

(* Cancel committing the edit as Save does. *)
handleEditorCloseSaves ==
  /\ editingGlyph # NoGlyph
  /\ editingGlyph' = NoGlyph
  /\ glyphs' = updateGlyph(glyphs, editingGlyph, JArray(edCells))
  /\ EditorUnmounted
  /\ NoOutput
  /\ UNCHANGED <<reading, nonAppVars>>

(* App.handleEditorClose (Cancel) *)
handleEditorClose ==
  /\ editingGlyph # NoGlyph
  /\ editingGlyph' = NoGlyph
  /\ EditorUnmounted
  /\ NoOutput
  /\ UNCHANGED <<glyphs, reading, nonAppVars>>

(* App.handleFileChange: a file is picked and a FileReader starts.  The     *)
(* import button is under the editor's overlay; one read at a time.         *)
handleFileChange(file) ==
  /\ editingGlyph = NoGlyph
  /\ reading = NoFile
  /\ reading' = file
  /\ NoOutput
  /\ UNCHANGED <<glyphs, editingGlyph, edCells, isDragging, dragTargetState,
                 nonAppVars>>

(* reader.onload *)
ReaderOnLoad ==
  /\ reading # NoFile
  /\ LET out == OnLoad(reading, glyphs)
     IN  /\ glyphs' = out.glyphs
         /\ lastAlert' = out.alert
  /\ reading' = NoFile
  /\ exported' = NoExport
  /\ UNCHANGED <<editingGlyph, edCells, isDragging, dragTargetState,
                 nonAppVars>>

(* App.handleExportFont; the export button is under the editor's overlay. *)
handleExportFont ==
  /\ editingGlyph = NoGlyph
  /\ exported' = ExportData(glyphs)
  /\ lastAlert' = "none"
  /\ UNCHANGED <<glyphs, editingGlyph, edCells, isDragging, dragTargetState,
                 reading, nonAppVars>>

(***************************************************************************)
(* The key format: toggleCell writes `${r}-${c}` and handleSave reads it   *)
(* back with key.split('-').map(Number).                                   *)
(***************************************************************************)
(* Row and column numbers of one, two and three digits. *)
KeyNumbers == {0, 1, 11, 110}

NaN == 0 - 1

NotSaved == {<<NaN, NaN>>}

(* `key.split('-')`: cur is the piece being read. *)
RECURSIVE split(_, _)
split(key, cur) ==
  IF key = <<>> THEN <<cur>>
  ELSE IF Head(key) = "-" THEN <<cur>> \o split(Tail(key), <<>>)
  ELSE split(Tail(key), Append(cur, Head(key)))

DigitValue(ch) == CHOOSE d \in 0 .. 9 : DigitChars[d + 1] = ch

(* `Number(str)` for a string of decimal digits: the empty string is 0, a  *)
(* string with any other character is NaN.                                 *)
RECURSIVE NumberFrom(_, _)
NumberFrom(str, acc) ==
  IF str = <<>> THEN acc
  ELSE NumberFrom(Tail(str), acc * 10 + DigitValue(Head(str)))

Number(str) ==
  IF \A i \in 1 .. Len(str) : str[i] \in Range(DigitChars)
  THEN NumberFrom(str, 0)
  ELSE NaN

(* `const [r, c] = key.split('-').map(Number)`; a missing piece leaves its *)
(* name undefined, which the arithmetic that follows turns into NaN.       *)
ParseKey(key) ==
  LET parts == split(key, <<>>)
  IN  << Number(parts[1]),
         IF Len(parts) >= 2 THEN Number(parts[2]) ELSE NaN >>

KeyInit ==
  /\ keyCoords = {}
  /\ keyCells = <<>>
  /\ keyDrawn = NotSaved

(* GlyphEditor.toggleCell(r, c) on a cell of the grid. *)
KeyToggle(r, c) ==
  /\ <<r, c>> \in keyCoords \/ Cardinality(keyCoords) < MaxActive
  /\ keyCoords' = IF <<r, c>> \in keyCoords THEN keyCoords \ {<<r, c>>}
                  ELSE keyCoords \cup {<<r, c>>}
  /\ keyCells' = toggleCell(keyCells, r, c, "undefined")
  /\ keyDrawn' = NotSaved
  /\ UNCHANGED nonKeyVars

(* GlyphEditor.handleSave: activeCells.forEach parses every key. *)
KeySave ==
  /\ keyDrawn' = {ParseKey(keyCells[i]) : i \in 1 .. Len(keyCells)}
  /\ UNCHANGED <<keyCoords, keyCells, nonKeyVars>>

(***************************************************************************)
(* TypeTester: the Generate action and the remote styling call.           *)
(* renderTextToBase64 has no await of its own, so from the click to the    *)
(* request of generateStyledText the handler runs in one turn of the event *)
(* loop; the answer of the remote service arrives in a later step.         *)
(***************************************************************************)
(* Largest number of Generate actions in one run of the model. *)
MaxGenerate == 3

(* generatedImage: null, or the image answered to the n-th action. *)
NoImage == 0

(* `str.trim()` *)
RECURSIVE trimStart(_)
trimStart(str) ==
  IF str # <<>> /\ Head(str) = " " THEN trimStart(Tail(str)) ELSE str

RECURSIVE trimEnd(_)
trimEnd(str) ==
  IF str # <<>> /\ str[Len(str)] = " "
  THEN trimEnd(SubSeq(str, 1, Len(str) - 1))
  ELSE str

trimKeepsSpaces(str) == str

trim(str) == trimEnd(trimStart(str))

(* The texts and prompts the user types. *)
Texts == {<<>>, <<" ">>, <<"A", " ">>}

Prompts == {<<>>, <<" ">>, <<" ", "l">>}

(* SAMPLE_TEXTS[0] of the constants file: a text with glyphs. *)
SAMPLE_TEXT == <<"A", " ">>

(* `!process.env.API_KEY` *)
ApiKeyCheckSkipped == FALSE

ApiKeyMissing == ~apiKey

(* The answers of the remote service to one request. *)
Answers == {"image", "no image", "rejected"}

(* The requests no answer has come to yet. *)
InFlight == {i \in 1 .. Len(genLog) : genLog[i].result = "pending"}

GenInit ==
  /\ text = SAMPLE_TEXT
  /\ prompt = <<>>
  /\ apiKey \in BOOLEAN
  /\ isGenerating = FALSE
  /\ generatedImage = NoImage
  /\ apiKeyError = FALSE
  /\ genLog = <<>>

(* TypeTester: the text area and the sample buttons. *)
setText(str) ==
  /\ text' = str
  /\ UNCHANGED <<prompt, apiKey, isGenerating, generatedImage, apiKeyError,
                 genLog, nonGenVars>>

(* TypeTester: the prompt field and the preset buttons. *)
setPrompt(str) ==
  /\ prompt' = str
  /\ UNCHANGED <<text, apiKey, isGenerating, generatedImage, apiKeyError,
                 genLog, nonGenVars>>

(* The Generate button is disabled while generating and for a blank prompt *)
(* or text; Enter in the prompt field calls the handler in any case.       *)
CanGenerate(via) ==
  \/ via = "enter"
  \/ via = "button" /\ ~isGenerating /\ trim(prompt) # <<>> /\ trim(text) # <<>>

(* What one call of handleGenerateBanner did: the prompt and the text it   *)
(* read, how often it invoked generateStyledText, how many requests went   *)
(* out, how it ended.                                                      *)
LogEntry(invoked, requests, result) ==
  [prompt |-> prompt, text |-> text, invoked |-> invoked,
   requests |-> requests, result |-> result]

(* TypeTester.handleGenerateBanner up to its await of the remote call, and *)
(* generateStyledText up to its request.  The log entry tells how many     *)
(* times generateStyledText was invoked, how many requests went out and    *)
(* how the action ended.                                                   *)
handleGenerateBanner(via) ==
  /\ Len(genLog) < MaxGenerate
  /\ CanGenerate(via)
  /\ IF trim(prompt) = <<>>
     THEN /\ genLog' = Append(genLog, LogEntry(0, 0, "nothing"))
          /\ UNCHANGED <<isGenerating, generatedImage, apiKeyError>>
     ELSE IF ApiKeyMissing
     THEN /\ apiKeyError' = TRUE
          /\ genLog' = Append(genLog, LogEntry(0, 0, "api key error"))
          /\ UNCHANGED <<isGenerating, generatedImage>>
     ELSE IF trim(text) = <<>>
     THEN \* renderTextToBase64 returns null: thrown, logged, finally
          /\ isGenerating' = FALSE
          /\ generatedImage' = NoImage
          /\ genLog' = Append(genLog, LogEntry(0, 0, "failed"))
          /\ UNCHANGED apiKeyError
     ELSE IF ~apiKey
     THEN \* getClient throws: logged twice, finally
          /\ isGenerating' = FALSE
          /\ generatedImage' = NoImage
          /\ genLog' = Append(genLog, LogEntry(1, 0, "failed"))
          /\ UNCHANGED apiKeyError
     ELSE /\ isGenerating' = TRUE
          /\ generatedImage' = NoImage
          /\ genLog' = Append(genLog, LogEntry(1, 1, "pending"))
          /\ UNCHANGED apiKeyError
  /\ UNCHANGED <<text, prompt, apiKey, nonGenVars>>

(* The remote service answers request i: generateStyledText returns the    *)
(* image or throws, handleGenerateBanner goes on after its await.          *)
RemoteAnswers(i, answer) ==
  /\ i \in InFlight
  /\ generatedImage' = IF answer = "image" THEN i ELSE generatedImage
  /\ isGenerating' = FALSE
  /\ genLog' = [genLog EXCEPT ![i].result =
                  IF answer = "image" THEN "image" ELSE "failed"]
  /\ UNCHANGED <<text, prompt, apiKey, apiKeyError, nonGenVars>>


(***************************************************************************)
(* Several GlyphDisplay calls side by side (the glyphs of a pattern        *)
(* layout), interleaved iteration by iteration of the polygon loop.  Each  *)
(* call has its own props and its own locals.                              *)
(***************************************************************************)
Instances == {"a", "b", "c"}

RenderProps ==
  { [cells |-> {Key(0, 0), Key(1, 1)}, crop |-> TRUE],
    [cells |-> {Key(0, 0), Key(1, 1)}, crop |-> FALSE],
    [cells |-> {Key(0, 1)}, crop |-> TRUE] }

NoViewBox == [minX |-> 0, minY |-> 0, width |-> 0, height |-> 0]

IdleInstance ==
  [phase |-> "idle", cells |-> {}, crop |-> FALSE, i |-> 0,
   bounds |-> InitialBounds, polygons |-> <<>>, viewBox |-> NoViewBox]

(* minC, maxC, minR, maxR are `let` locals of the call. *)
BoundsOfFirstInstance(n) == inst["a"].bounds

LocalBounds(n) == inst[n].bounds

InstInit == inst = [n \in Instances |-> IdleInstance]

(* The component function is entered: activeCells, bounds, polygons. *)
RenderStart(n, props) ==
  /\ inst[n].phase # "loop"
  /\ inst' = [inst EXCEPT ![n] =
                [phase |-> "loop", cells |-> props.cells, crop |-> props.crop,
                 i |-> 0, bounds |-> InitialBounds, polygons |-> <<>>,
                 viewBox |-> NoViewBox]]
  /\ UNCHANGED nonInstVars

(* One iteration of the nested loops, cell i = r * GRID_COLS + c. *)
RenderCell(n) ==
  /\ inst[n].phase = "loop"
  /\ inst[n].i < GRID_ROWS * GRID_COLS
  /\ LET r == inst[n].i \div GRID_COLS
         c == inst[n].i % GRID_COLS
         key == Key(r, c)
     IN  inst' = [inst EXCEPT ![n] =
           IF key \in inst[n].cells
           THEN [@ EXCEPT
                   !.i = @ + 1,
                   !.bounds = IF inst[n].crop
                              THEN TrackBounds(LocalBounds(n), r, c)
                              ELSE @,
                   !.polygons = Append(@, [key |-> key,
                                           points |-> getPoints(r, c)])]
           ELSE [@ EXCEPT !.i = @ + 1]]
  /\ UNCHANGED nonInstVars

(* After the loops: the viewBox, and the element is returned. *)
RenderReturn(n) ==
  /\ inst[n].phase = "loop"
  /\ inst[n].i = GRID_ROWS * GRID_COLS
  /\ inst' = [inst EXCEPT ![n] =
                [@ EXCEPT !.phase = "done",
                          !.viewBox = ViewBoxOf(inst[n].crop,
                                        [bounds |-> LocalBounds(n),
                                         polygons |-> inst[n].polygons])]]
  /\ UNCHANGED nonInstVars

(***************************************************************************)
(* The editor with the history of the drag gesture: which cells the        *)
(* gesture pressed or entered, what the set was at its mouse-down, and     *)
(* whether anything but cell entries happened before its mouse-up.         *)
(***************************************************************************)
NoDrag ==
  [phase |-> "none", target |-> TRUE, start |-> {}, touched |-> {},
   plain |-> TRUE]

NoSession == [state |-> "none", glyphs |-> INITIAL_GLYPHS, edited |-> FALSE]

DragInit == drag = NoDrag /\ session = NoSession

(* The cells of the editor were changed by the step. *)
SessionEdited ==
  session' = [session EXCEPT !.edited = @ \/ edCells' # edCells]

(* handleMouseDown: a gesture starts, unless one is under way (a second    *)
(* button pressed while the first is held).                                *)
DragMouseDown(r, c) ==
  /\ handleMouseDown(r, c)
  /\ drag' = IF drag.phase = "dragging"
             THEN [drag EXCEPT !.touched = @ \cup {Key(r, c)},
                               !.plain = FALSE]
             ELSE [phase |-> "dragging",
                   target |-> Key(r, c) \notin Range(edCells),
                   start |-> Range(edCells),
                   touched |-> {Key(r, c)},
                   plain |-> TRUE]
  /\ SessionEdited

DragMouseEnter(r, c) ==
  /\ handleMouseEnter(r, c)
  /\ drag' = IF drag.phase = "dragging"
             THEN [drag EXCEPT !.touched = @ \cup {Key(r, c)}]
             ELSE NoDrag
  /\ SessionEdited

(* Mouse-up on the overlay or mouse-leave of the grid ends the gesture. *)
DragMouseUp ==
  /\ handleMouseUp
  /\ drag' = IF drag.phase = "dragging"
             THEN [drag EXCEPT !.phase = "ended"]
             ELSE NoDrag
  /\ UNCHANGED session

(* Clear Grid, by the keyboard when a gesture is under way. *)
DragClear ==
  /\ handleClear
  /\ drag' = IF drag.phase = "dragging"
             THEN [drag EXCEPT !.plain = FALSE]
             ELSE NoDrag
  /\ SessionEdited

DragEditClick(ch) ==
  /\ handleEditClick(ch)
  /\ drag' = NoDrag
  /\ session' = [state |-> "open", glyphs |-> glyphs, edited |-> FALSE]

DragSave ==
  /\ handleSave
  /\ drag' = NoDrag
  /\ session' = [session EXCEPT !.state = "saved"]

DragEditorClose ==
  /\ handleEditorClose
  /\ drag' = NoDrag
  /\ session' = [session EXCEPT !.state = "cancelled"]

(***************************************************************************)
(* TypeTester: a character on screen and in the canvas mask of             *)
(* renderTextToBase64.                                                     *)
(***************************************************************************)
SCALE == 2

R_TRIANGLE_SIZE == TRIANGLE_SIZE * SCALE

R_TRIANGLE_HEIGHT == TRIANGLE_HEIGHT * SCALE

PADDING_X == 50 * SCALE

PADDING_Y == 50 * SCALE

(* The screen shows the character itself instead of a GlyphDisplay:        *)
(* `glyphData && glyphData.gridState && glyphData.gridState.length > 0`    *)
(* fails.                                                                  *)
ScreenFallback(gridState) ==
  ~(Truthy(gridState) /\ LengthPositive(gridState))

(* drawGlyph: the path of the triangle of cell (r, c), moveTo and two      *)
(* lineTo.                                                                 *)
drawGlyphPath(r, c, startX, startY) ==
  LET xBase == startX + (c * Px(R_TRIANGLE_SIZE)) \div 2
      yBase == startY + r * Px(R_TRIANGLE_HEIGHT)
  IN  IF (r + c) % 2 = 0
      THEN << <<xBase, yBase + Px(R_TRIANGLE_HEIGHT)>>,
              <<xBase + Px(R_TRIANGLE_SIZE) \div 2, yBase>>,
              <<xBase + Px(R_TRIANGLE_SIZE), yBase + Px(R_TRIANGLE_HEIGHT)>> >>
      ELSE << <<xBase, yBase>>,
              <<xBase + Px(R_TRIANGLE_SIZE), yBase>>,
              <<xBase + Px(R_TRIANGLE_SIZE) \div 2,
                yBase + Px(R_TRIANGLE_HEIGHT)>> >>

(* drawGlyph(char, startX, startY) for a character that is no space and    *)
(* whose glyph has this gridState: the plain-text fallback, or one filled  *)
(* path per key of the set.  A path through NaN coordinates fills nothing. *)
drawGlyph(gridState, startX, startY) ==
  IF Truthy(gridState)
  THEN [fallback |-> FALSE,
        paths |->
          { [cell |-> ParseKey(k),
             points |-> drawGlyphPath(ParseKey(k)[1], ParseKey(k)[2],
                                      startX, startY)] :
              k \in {x \in Range(NewSet(gridState)) :
                       NaN \notin Range(ParseKey(x))} }]
  ELSE [fallback |-> TRUE, paths |-> {}]

\* ---- specifications ----
(* The state after mounting, in a build with or without an API key. *)
InitAnyBuild ==
  /\ DisplayInit
  /\ AppInit
  /\ KeyInit
  /\ GenInit
  /\ InstInit
  /\ DragInit

(* The state after mounting in a build with an API key; the key is read by *)
(* handleGenerateBanner alone.                                             *)
Init ==
  /\ InitAnyBuild
  /\ apiKey

Next ==
  \/ \E k \in KeyUniverse : RenderWithKeyAdded(k)
  \/ \E k \in KeyUniverse : RenderWithKeyRemoved(k)
  \/ RenderEmpty
  \/ RenderFullGrid
  \/ \E b \in BOOLEAN : RenderWithAutoCrop(b)

Spec == Init /\ [][Next]_vars

NextApp ==
  \/ \E ch \in Chars : handleEditClick(ch) /\ UNCHANGED history
  \/ \E rc \in ClickCells : handleMouseDown(rc[1], rc[2]) /\ UNCHANGED history
  \/ \E rc \in ClickCells : handleMouseEnter(rc[1], rc[2]) /\ UNCHANGED history
  \/ handleMouseUp /\ UNCHANGED history
  \/ handleClear /\ UNCHANGED history
  \/ handleSave /\ UNCHANGED history
  \/ handleEditorClose /\ UNCHANGED history
  \/ \E file \in ImportFiles : handleFileChange(file) /\ UNCHANGED history
  \/ ReaderOnLoad /\ UNCHANGED history
  \/ handleExportFont /\ UNCHANGED history

SpecApp == Init /\ [][NextApp]_vars

NextKeys ==
  \/ \E r \in KeyNumbers, c \in KeyNumbers : KeyToggle(r, c)
  \/ KeySave

SpecKeys == Init /\ [][NextKeys]_vars

NextGen ==
  \/ \E str \in Texts : setText(str)
  \/ \E str \in Prompts : setPrompt(str)
  \/ \E via \in {"button", "enter"} : handleGenerateBanner(via)
  \/ \E i \in 1 .. MaxGenerate, answer \in Answers : RemoteAnswers(i, answer)

SpecGen == InitAnyBuild /\ [][NextGen]_vars

(* The remote service answers every request in the end. *)
SpecGenAnswered ==
  /\ InitAnyBuild
  /\ [][NextGen]_vars
  /\ \A i \in 1 .. MaxGenerate :
       WF_vars(\E answer \in Answers : RemoteAnswers(i, answer))

NextRenders ==
  \/ \E n \in Instances, props \in RenderProps : RenderStart(n, props)
  \/ \E n \in Instances : RenderCell(n)
  \/ \E n \in Instances : RenderReturn(n)

SpecRenders == Init /\ [][NextRenders]_vars

NextDrag ==
  \/ \E ch \in Chars : DragEditClick(ch)
  \/ \E rc \in ClickCells : DragMouseDown(rc[1], rc[2])
  \/ \E rc \in ClickCells : DragMouseEnter(rc[1], rc[2])
  \/ DragMouseUp
  \/ DragClear
  \/ DragSave
  \/ DragEditorClose

SpecDrag == Init /\ [][NextDrag]_vars

TypeOK ==
  /\ activeCells \subseteq KeyUniverse
  /\ autoCrop \in BOOLEAN
  /\ Len(polygons) <= GRID_ROWS * GRID_COLS
  /\ viewBox.width > 0

(***************************************************************************)
(* Vocabulary of the properties.                                           *)
(***************************************************************************)
GridCells == Rows \X Cols

(* The cells of the grid whose key is in the active-cell set. *)
ActiveCoords == {rc \in GridCells : Key(rc[1], rc[2]) \in activeCells}

(* The cell a drawn polygon was drawn for. *)
CellOfKey(k) == CHOOSE rc \in GridCells : Key(rc[1], rc[2]) = k

Drawn == 1 .. Len(polygons)

MinOf(S) == CHOOSE x \in S : \A y \in S : x <= y

MaxOf(S) == CHOOSE x \in S : \A y \in S : x >= y

Abs(n) == IF n < 0 THEN -n ELSE n

(* A triangle points up when its second vertex (the apex of an up         *)
(* triangle, the top-right corner of a down triangle) is above its first.  *)
PointsUp(p) == p[2][2] < p[1][2]

S10 == TRIANGLE_SIZE * PaddingDivisor

H10 == TRIANGLE_HEIGHT * PaddingDivisor

(* C1: for every cell drawn, getPoints gave, with xBase = c*S/2 and
   yBase = r*H, the vertices (xBase, yBase+H), (xBase+S/2, yBase),
   (xBase+S, yBase+H) when r+c is even and (xBase, yBase), (xBase+S, yBase),
   (xBase+S/2, yBase+H) when r+c is odd, in that order. *)
C1_GetPointsVertices ==
  \A i \in Drawn :
    LET rc == CellOfKey(polygons[i].key)
        xb == (rc[2] * S10) \div 2
        yb == rc[1] * H10
    IN  polygons[i].points =
          IF (rc[1] + rc[2]) % 2 = 0
          THEN << <<xb, yb + H10>>, <<xb + S10 \div 2, yb>>, <<xb + S10, yb + H10>> >>
          ELSE << <<xb, yb>>, <<xb + S10, yb>>, <<xb + S10 \div 2, yb + H10>> >>

C1_Witness ==
  \E i, j \in Drawn :
    LET a == CellOfKey(polygons[i].key)
        b == CellOfKey(polygons[j].key)
    IN  /\ (a[1] + a[2]) % 2 = 0
        /\ (b[1] + b[2]) % 2 = 1
        /\ a[2] > 0 /\ b[1] > 0

(* C2: with auto-crop on and at least one active cell of the grid, the
   viewBox has origin (minX - width/10, minY - height/10) and size
   (1.2*width, 1.2*height), with minX = minCol*S/2, maxX = maxCol*S/2 + S,
   minY = minRow*H, maxY = (maxRow+1)*H taken over the active cells. *)
C2_CroppedViewBox ==
  (autoCrop /\ ActiveCoords # {}) =>
    LET rows == {rc[1] : rc \in ActiveCoords}
        cols == {rc[2] : rc \in ActiveCoords}
        minX == (MinOf(cols) * S10) \div 2
        maxX == (MaxOf(cols) * S10) \div 2 + S10
        minY == MinOf(rows) * H10
        maxY == (MaxOf(rows) + 1) * H10
        width == maxX - minX
        height == maxY - minY
    IN  /\ 10 * viewBox.minX = 10 * minX - width
        /\ 10 * viewBox.minY = 10 * minY - height
        /\ 10 * viewBox.width = 12 * width
        /\ 10 * viewBox.height = 12 * height

C2_Witness ==
  /\ autoCrop
  /\ \E a, b \in ActiveCoords : a[1] < b[1] /\ a[2] > b[2]
  /\ viewBox # FixedViewBox

(* C3: with auto-crop on and a non-empty set of active cells of the grid,
   every vertex of every drawn triangle is inside the viewBox, at least 10%
   of the bounding-box width from its left and right sides and 10% of the
   bounding-box height from its top and bottom. *)
C3_ViewBoxContainsWithMargin ==
  (autoCrop /\ ActiveCoords # {} /\ activeCells \subseteq ValidKeys) =>
    LET verts == UNION {{polygons[i].points[n] : n \in 1 .. 3} : i \in Drawn}
        bw == MaxOf({v[1] : v \in verts}) - MinOf({v[1] : v \in verts})
        bh == MaxOf({v[2] : v \in verts}) - MinOf({v[2] : v \in verts})
    IN  /\ Len(polygons) = Cardinality(activeCells)
        /\ \A v \in verts :
             /\ 10 * (v[1] - viewBox.minX) >= bw
             /\ 10 * (viewBox.minX + viewBox.width - v[1]) >= bw
             /\ 10 * (v[2] - viewBox.minY) >= bh
             /\ 10 * (viewBox.minY + viewBox.height - v[2]) >= bh

C3_Witness ==
  /\ autoCrop
  /\ activeCells \subseteq ValidKeys
  /\ Cardinality(activeCells) = MaxActive
  /\ Len(polygons) = MaxActive

(* C4: the viewBox is the fixed (0, 0, CANVAS_WIDTH, CANVAS_HEIGHT) whenever
   auto-crop is off, and whenever no cell of the grid is active. *)
C4_FixedViewBox ==
  (~autoCrop \/ ActiveCoords = {}) =>
    /\ viewBox.minX = 0
    /\ viewBox.minY = 0
    /\ viewBox.width = CANVAS_WIDTH * PaddingDivisor
    /\ viewBox.height = CANVAS_HEIGHT * PaddingDivisor

C4_Witness ==
  /\ autoCrop
  /\ activeCells = {}
  /\ polygons = <<>>
  /\ viewBox.width = CANVAS_WIDTH * PaddingDivisor

(* C5: the viewBox always has strictly positive width and height; with
   auto-crop on and exactly one active cell it is S by H plus the 10%
   padding on every side. *)
C5_PositiveViewBox ==
  /\ viewBox.width > 0
  /\ viewBox.height > 0
  /\ (autoCrop /\ Cardinality(ActiveCoords) = 1) =>
       /\ 10 * viewBox.width = 12 * S10
       /\ 10 * viewBox.height = 12 * H10

C5_Witness ==
  /\ autoCrop
  /\ Cardinality(ActiveCoords) = 1
  /\ Len(polygons) = 1
  /\ viewBox # FixedViewBox
  /\ viewBox.minX > 0
  /\ viewBox.minY > 0

(***************************************************************************)
(* The single active cell at the centre of the grid.                       *)
(***************************************************************************)
CenterCell == <<GRID_ROWS \div 2, GRID_COLS \div 2>>

OnlyCenterActive == autoCrop /\ ActiveCoords = {CenterCell} /\ Len(polygons) = 1

(* Six times the distance, on axis n, between the centre of the viewBox and
   the centroid of the triangle p (both are multiples of 1/6 unit). *)
CenterOffset6(p, n) ==
  LET lo == IF n = 1 THEN viewBox.minX ELSE viewBox.minY
      ext == IF n = 1 THEN viewBox.width ELSE viewBox.height
  IN  Abs((6 * lo + 3 * ext) - 2 * (p[1][n] + p[2][n] + p[3][n]))

ViewBoxContains(v) ==
  /\ viewBox.minX <= v[1] /\ v[1] <= viewBox.minX + viewBox.width
  /\ viewBox.minY <= v[2] /\ v[2] <= viewBox.minY + viewBox.height

(* C6 as stated: for a single active cell at grid-center, the centre of the
   cropped viewBox is within the 10% padding (S/10 in x, H/10 in y) of the
   triangle's centroid, and the viewBox contains the triangle. *)
C6_CenterWithinPadding ==
  OnlyCenterActive =>
    LET p == polygons[1].points
    IN  /\ 10 * CenterOffset6(p, 1) <= 6 * S10
        /\ 10 * CenterOffset6(p, 2) <= 6 * H10
        /\ \A n \in 1 .. 3 : ViewBoxContains(p[n])

(* C6 amended: for a single active cell at grid-center, the centre of the
   cropped viewBox has the x of the triangle's centroid and is exactly H/6
   from it in y (more than the padding H/10), and the viewBox contains the
   triangle. *)
C6_CenterOfBoundingBox ==
  OnlyCenterActive =>
    LET p == polygons[1].points
    IN  /\ CenterOffset6(p, 1) = 0
        /\ CenterOffset6(p, 2) = H10
        /\ 10 * CenterOffset6(p, 2) > 6 * H10
        /\ \A n \in 1 .. 3 : ViewBoxContains(p[n])

C6_Witness ==
  /\ OnlyCenterActive
  /\ polygons[1].key = Key(CenterCell[1], CenterCell[2])
  /\ viewBox # FixedViewBox

(* C7: a drawn triangle points up iff r+c is even, every cell of the same
   parity has the same orientation, and the cells (r, c+1) and (r+1, c) have
   the opposite one. *)
C7_OrientationParity ==
  \A i \in Drawn :
    LET rc == CellOfKey(polygons[i].key)
        up == PointsUp(polygons[i].points)
    IN  /\ up <=> ((rc[1] + rc[2]) % 2 = 0)
        /\ \A o \in GridCells :
             ((o[1] + o[2]) % 2 = (rc[1] + rc[2]) % 2)
               => (PointsUp(getPoints(o[1], o[2])) <=> up)
        /\ PointsUp(getPoints(rc[1], rc[2] + 1)) # up
        /\ PointsUp(getPoints(rc[1] + 1, rc[2])) # up

C7_Witness ==
  \E i, j \in Drawn :
    LET a == CellOfKey(polygons[i].key)
        b == CellOfKey(polygons[j].key)
    IN  /\ b = <<a[1], a[2] + 1>>
        /\ PointsUp(polygons[i].points) # PointsUp(polygons[j].points)

(***************************************************************************)
(* The edges of a triangle, as sets of two vertices.                       *)
(***************************************************************************)
EdgesOf(p) == {{p[1], p[2]}, {p[2], p[3]}, {p[1], p[3]}}

IsHorizontal(e) == \A v, w \in e : v[2] = w[2]

HorizontalEdge(p) == CHOOSE e \in EdgesOf(p) : IsHorizontal(e)

LeftEdge(p) ==
  CHOOSE e \in EdgesOf(p) :
    ~IsHorizontal(e) /\ \E v \in e : \A n \in 1 .. 3 : v[1] <= p[n][1]

RightEdge(p) ==
  CHOOSE e \in EdgesOf(p) :
    ~IsHorizontal(e) /\ \E v \in e : \A n \in 1 .. 3 : v[1] >= p[n][1]

(* C8: every edge of a drawn triangle is an edge of the neighbouring cell's
   triangle when that cell is in the grid: the right edge of (r, c+1)'s left
   edge, the left edge of (r, c-1)'s right edge, and the horizontal edge of
   the horizontal edge of (r+1, c) for an up triangle, (r-1, c) for a down
   triangle, with identical endpoints. *)
C8_SharedEdges ==
  \A i \in Drawn :
    LET rc == CellOfKey(polygons[i].key)
        r == rc[1]
        c == rc[2]
        p == polygons[i].points
        v == IF PointsUp(p) THEN r + 1 ELSE r - 1
    IN  /\ Cardinality(EdgesOf(p)) = 3
        /\ \A e \in EdgesOf(p) : Cardinality(e) = 2
        /\ (c + 1 \in Cols) => RightEdge(p) = LeftEdge(getPoints(r, c + 1))
        /\ (c - 1 \in Cols) => LeftEdge(p) = RightEdge(getPoints(r, c - 1))
        /\ (v \in Rows) => HorizontalEdge(p) = HorizontalEdge(getPoints(v, c))

C8_Witness ==
  \E i, j, k \in Drawn :
    LET a == CellOfKey(polygons[i].key)
        b == CellOfKey(polygons[j].key)
        d == CellOfKey(polygons[k].key)
    IN  /\ b = <<a[1], a[2] + 1>>
        /\ d = <<a[1] + 1, a[2]>>
        /\ PointsUp(polygons[i].points)
        /\ RightEdge(polygons[i].points) = LeftEdge(polygons[j].points)
        /\ HorizontalEdge(polygons[i].points) = HorizontalEdge(polygons[k].points)

(***************************************************************************)
(* Coverage of the canvas by the drawn triangles, decided on the lattice   *)
(* of half-pixel points of the canvas rectangle.                           *)
(***************************************************************************)
HalfPx == PaddingDivisor \div 2

SamplePoints ==
  {<<x * HalfPx, y * HalfPx>> : x \in 0 .. 2 * CANVAS_WIDTH,
                                 y \in 0 .. 2 * CANVAS_HEIGHT}

Cross(a, b, q) == (b[1] - a[1]) * (q[2] - a[2]) - (b[2] - a[2]) * (q[1] - a[1])

(* q is in the closed triangle p. *)
InTriangle(p, q) ==
  LET d1 == Cross(p[1], p[2], q)
      d2 == Cross(p[2], p[3], q)
      d3 == Cross(p[3], p[1], q)
  IN  \/ (d1 >= 0 /\ d2 >= 0 /\ d3 >= 0)
      \/ (d1 <= 0 /\ d2 <= 0 /\ d3 <= 0)

(* q is in the interior of the triangle p. *)
InInterior(p, q) ==
  LET d1 == Cross(p[1], p[2], q)
      d2 == Cross(p[2], p[3], q)
      d3 == Cross(p[3], p[1], q)
  IN  \/ (d1 > 0 /\ d2 > 0 /\ d3 > 0)
      \/ (d1 < 0 /\ d2 < 0 /\ d3 < 0)

Covered(q) == \E i \in Drawn : InTriangle(polygons[i].points, q)

NoOverlapAt(q) ==
  \A i, j \in Drawn :
    (InInterior(polygons[i].points, q) /\ InInterior(polygons[j].points, q))
      => i = j

EveryCellActive == ValidKeys \subseteq activeCells

(* C9 as stated: when every cell of the grid is active, the drawn triangles
   cover the whole canvas rectangle (0, 0, CANVAS_WIDTH, CANVAS_HEIGHT) with
   no gaps, and no two of them overlap in their interiors. *)
C9_SeamlessRectangle ==
  EveryCellActive =>
    \A q \in SamplePoints : Covered(q) /\ NoOverlapAt(q)

(* C9 amended: when every cell of the grid is active, no two drawn triangles
   overlap in their interiors, and they cover with no gaps the part of the
   canvas rectangle with S/2 <= x <= CANVAS_WIDTH - S/2; every point they
   leave uncovered is in the two margins of width S/2, whose edge is a
   zigzag. *)
C9_SeamlessBetweenMargins ==
  EveryCellActive =>
    /\ Len(polygons) = GRID_ROWS * GRID_COLS
    /\ \A q \in SamplePoints :
         /\ NoOverlapAt(q)
         /\ (2 * q[1] >= S10 /\ 2 * q[1] <= 2 * CANVAS_WIDTH * PaddingDivisor - S10)
              => Covered(q)
    /\ \E q \in SamplePoints : 2 * q[1] < S10 /\ ~Covered(q)
    /\ \E q \in SamplePoints :
         2 * q[1] > 2 * CANVAS_WIDTH * PaddingDivisor - S10 /\ ~Covered(q)

C9_Witness ==
  /\ EveryCellActive
  /\ Len(polygons) = GRID_ROWS * GRID_COLS
  /\ ~Covered(<<0, 0>>)

(* C10: the three vertices of every drawn triangle are not collinear: twice
   its area is S*H, which is positive. *)
C10_PositiveArea ==
  \A i \in Drawn :
    LET p == polygons[i].points
    IN  /\ Abs(Cross(p[1], p[2], p[3])) = S10 * H10
        /\ Cross(p[1], p[2], p[3]) # 0

C10_Witness ==
  \E i, j \in Drawn :
    /\ PointsUp(polygons[i].points)
    /\ ~PointsUp(polygons[j].points)
    /\ Cross(polygons[i].points[1], polygons[i].points[2], polygons[i].points[3]) # 0
    /\ Cross(polygons[j].points[1], polygons[j].points[2], polygons[j].points[3]) # 0

(* C11: GlyphDisplay draws exactly one polygon for every active cell of the
   grid, with the vertices of that cell, and none for any other coordinate:
   the set of polygon keys is the set of keys of the active cells (the whole
   active-cell set when it holds grid coordinates only). *)
C11_PolygonsAreActiveCells ==
  /\ {polygons[i].key : i \in Drawn} = {Key(rc[1], rc[2]) : rc \in ActiveCoords}
  /\ Len(polygons) = Cardinality(ActiveCoords)
  /\ \A i \in Drawn :
       LET rc == CellOfKey(polygons[i].key)
       IN  polygons[i].points = getPoints(rc[1], rc[2])
  /\ (activeCells \subseteq ValidKeys)
       => {polygons[i].key : i \in Drawn} = activeCells

C11_Witness ==
  /\ Len(polygons) = 2
  /\ Cardinality(activeCells) = 3
  /\ \E i \in Drawn : CellOfKey(polygons[i].key)[2] = GRID_COLS - 1

(* C12: with CANVAS_WIDTH = GRID_COLS*S/2 + S/2 and CANVAS_HEIGHT =
   GRID_ROWS*H, every vertex of every cell of the grid is inside
   [0, CANVAS_WIDTH] x [0, CANVAS_HEIGHT], and when the whole grid is drawn
   each of the four extremes is the coordinate of some vertex. *)
C12_CanvasBoundsGrid ==
  LET verts == UNION {{polygons[i].points[n] : n \in 1 .. 3} : i \in Drawn}
      w == CANVAS_WIDTH * PaddingDivisor
      h == CANVAS_HEIGHT * PaddingDivisor
  IN  /\ \A v \in verts : 0 <= v[1] /\ v[1] <= w /\ 0 <= v[2] /\ v[2] <= h
      /\ EveryCellActive =>
           /\ \E v \in verts : v[1] = 0
           /\ \E v \in verts : v[1] = w
           /\ \E v \in verts : v[2] = 0
           /\ \E v \in verts : v[2] = h

C12_Witness ==
  /\ EveryCellActive
  /\ \E i \in Drawn :
       /\ polygons[i].key = Key(GRID_ROWS - 1, GRID_COLS - 1)
       /\ \E n \in 1 .. 3 :
            polygons[i].points[n][1] = CANVAS_WIDTH * PaddingDivisor

(***************************************************************************)
(* Vocabulary of the import and export claims.                             *)
(***************************************************************************)
(* The step in which reader.onload handles the file that was being read. *)
OnLoadStep == reading # NoFile /\ reading' = NoFile

(* The document's top-level glyphs field; absent when the document is no   *)
(* object.                                                                 *)
GlyphsField(file) == GetProp(file.json, "glyphs")

(* The file is no parseable JSON, or its glyphs field is absent or is not  *)
(* an object of the document format (a map from characters to lists).      *)
Malformed(file) == ~file.parses \/ GlyphsField(file).t # "object"

(* The glyph has at least one active cell: its gridState is a list with at *)
(* least one key.                                                          *)
HasActiveCell(g) == g.gridState.t = "array" /\ Len(g.gridState.v) >= 1

(* C13: when the imported file is no parseable JSON, or its top-level      *)
(* glyphs field is absent or not an object, the import signals a failure   *)
(* and leaves every glyph's gridState, imageUrl and status as they were.   *)
C13_ImportRejectsMalformed ==
  [][(OnLoadStep /\ Malformed(reading)) =>
       (lastAlert' # "none" /\ glyphs' = glyphs)]_vars

(* C14: a successful import leaves unchanged every glyph whose character   *)
(* is missing from the document's glyphs object, and sets the gridState of *)
(* every glyph whose character has a list there to that list.              *)
C14_ImportFrame ==
  [][(OnLoadStep /\ lastAlert' = "none" /\ GlyphsField(reading).t = "object") =>
       \A ch \in Chars :
         LET entry == GetProp(GlyphsField(reading), ch)
         IN  /\ ch \notin DOMAIN GlyphsField(reading).v =>
                  glyphs'[ch] = glyphs[ch]
             /\ entry.t = "array" =>
                  /\ glyphs'[ch].gridState = entry
                  /\ glyphs'[ch].char = ch]_vars

C14_Witness ==
  /\ lastAlert = "none"
  /\ reading = NoFile
  /\ glyphs["A"].gridState = JArray(<<>>)
  /\ glyphs["E"].gridState = JArray(<<Key(GRID_ROWS, 0)>>)

C20_ClickTogglesOneCell ==
  [][/\ \A rc \in ClickCells :
          (~isDragging /\ handleMouseDown(rc[1], rc[2])) =>
            /\ Key(rc[1], rc[2]) \in Range(edCells')
                 <=> Key(rc[1], rc[2]) \notin Range(edCells)
            /\ \A k \in (Range(edCells) \cup Range(edCells'))
                          \ {Key(rc[1], rc[2])} :
                 k \in Range(edCells') <=> k \in Range(edCells)
     /\ handleMouseUp => edCells' = edCells]_vars

C20_Witness ==
  /\ editingGlyph = "A"
  /\ ~isDragging
  /\ dragTargetState = FALSE
  /\ Range(edCells) = {Key(0, 1)}

(* C16: for every set of coordinates, writing each as "{row}-{col}" and    *)
(* reading each key back by splitting on the hyphen and converting to      *)
(* numbers gives the same set of coordinates, and no two coordinates are   *)
(* written as the same key.                                                *)
C16_KeyRoundTrip ==
  /\ Cardinality(Range(keyCells)) = Cardinality(keyCoords)
  /\ Range(keyCells) = {Key(rc[1], rc[2]) : rc \in keyCoords}
  /\ keyDrawn # NotSaved => keyDrawn = keyCoords

C16_Witness ==
  /\ keyCoords = {<<1, 11>>, <<11, 1>>, <<110, 0>>}
  /\ keyDrawn = keyCoords

(***************************************************************************)
(* Vocabulary of the generation claims.                                    *)
(***************************************************************************)
(* The page shows an error: the API Key Error banner of App is the only    *)
(* error element it can render.                                            *)
ErrorShown == apiKeyError

(* The remote call of action i was answered without an image or rejected. *)
RemoteFailed(i) == genLog[i].requests >= 1 /\ genLog[i].result = "failed"

LastAction == genLog[Len(genLog)]

(* C17: a remote styling call that returns no image or is rejected shows   *)
(* up as a visible error state, and generateStyledText is invoked at most  *)
(* once per Generate action.                                               *)
C17_FailureShownNoRetry ==
  \A i \in 1 .. Len(genLog) :
    /\ genLog[i].invoked <= 1
    /\ genLog[i].requests <= 1
    /\ RemoteFailed(i) => ErrorShown

(* C18: without an API credential, a Generate action with a non-empty      *)
(* prompt sets apiKeyError through onApiKeyError, invokes no remote call   *)
(* and leaves isGenerating and generatedImage as they were.                *)
C18_ApiKeyErrorBeforeCall ==
  [][\A via \in {"button", "enter"} :
       (~apiKey /\ trim(prompt) # <<>> /\ handleGenerateBanner(via)) =>
         /\ apiKeyError'
         /\ genLog'[Len(genLog')].invoked = 0
         /\ genLog'[Len(genLog')].requests = 0
         /\ isGenerating' = isGenerating
         /\ generatedImage' = generatedImage]_vars

C18_Witness ==
  /\ ~apiKey
  /\ apiKeyError
  /\ genLog # <<>>
  /\ LastAction.result = "api key error"
  /\ ~isGenerating

(* C19: two renders with equal active-cell sets and equal auto-crop flags  *)
(* return equal polygons and equal viewBoxes, whatever other renders run   *)
(* between or during them.                                                 *)
C19_RendersIndependent ==
  \A m \in Instances, n \in Instances :
    (/\ inst[m].phase = "done"
     /\ inst[n].phase = "done"
     /\ inst[m].cells = inst[n].cells
     /\ inst[m].crop = inst[n].crop) =>
      /\ inst[m].polygons = inst[n].polygons
      /\ inst[m].viewBox = inst[n].viewBox

C19_Witness ==
  /\ inst["a"].phase = "loop"
  /\ inst["a"].i = GRID_COLS
  /\ inst["a"].cells = {Key(0, 1)}
  /\ inst["b"].phase = "done"
  /\ inst["c"].phase = "done"
  /\ inst["b"].cells = {Key(0, 0), Key(1, 1)}
  /\ inst["c"].cells = inst["b"].cells
  /\ inst["b"].crop
  /\ inst["c"].crop
  /\ Len(inst["c"].polygons) = 2

(***************************************************************************)
(* Vocabulary of the drag claim.                                           *)
(***************************************************************************)
(* The cells the gesture pressed or entered have the membership the        *)
(* pressed cell did not have at the mouse-down, every other cell has the   *)
(* membership it had at the mouse-down.                                    *)
DragPainted ==
  /\ \A k \in drag.touched : k \in Range(edCells) <=> drag.target
  /\ \A k \in (drag.start \cup Range(edCells)) \ drag.touched :
       k \in Range(edCells) <=> k \in drag.start

(* Entering a cell while no drag is under way leaves the set as it is. *)
EnterWithoutDrag ==
  \A rc \in ClickCells :
    (~isDragging /\ handleMouseEnter(rc[1], rc[2])) => edCells' = edCells

(* C21, as stated: from a mouse-down on k to the next mouse-up or          *)
(* mouse-leave, every cell pressed or entered ends with the complement of  *)
(* k's membership at the mouse-down and the other cells are unchanged.     *)
C21_DragPaintsTouched ==
  /\ [](drag.phase = "ended" => DragPainted)
  /\ [][EnterWithoutDrag]_vars

(* C21, amended: the same for a gesture made of one mouse-down and cell    *)
(* entries alone, at every moment of it and at its end; and once dragging  *)
(* has ended, entering a cell changes nothing.                             *)
C21_PlainDragPaintsTouched ==
  /\ []((drag.phase \in {"dragging", "ended"} /\ drag.plain) => DragPainted)
  /\ [][EnterWithoutDrag]_vars

C21_Witness ==
  /\ drag.phase = "ended"
  /\ drag.plain
  /\ ~drag.target
  /\ drag.touched = {Key(0, 0), Key(1, 1)}
  /\ drag.start = {Key(0, 0), Key(0, 1), Key(1, 1)}
  /\ Range(edCells) = {Key(0, 1)}

C23_CancelDiscards ==
  /\ session.state \in {"open", "cancelled"} =>
       \A ch \in Chars : glyphs[ch].gridState = session.glyphs[ch].gridState
  /\ session.state = "cancelled" => editingGlyph = NoGlyph /\ edCells = <<>>

C23_Witness ==
  /\ session.state = "cancelled"
  /\ session.edited
  /\ session.glyphs # INITIAL_GLYPHS
  /\ glyphs["E"].gridState = JArray(<<Key(1, 1)>>)

(* The string is empty or white space only. *)
IsBlank(str) == \A i \in 1 .. Len(str) : str[i] = " "

(* The step in which the remote service answers request i. *)
AnswerStep(i) == genLog[i].result = "pending" /\ genLog'[i].result # "pending"

(* C24: a Generate action that sets isGenerating is followed, once its     *)
(* remote call is answered, by isGenerating being false; when the answer   *)
(* is an image generatedImage is that image, when the call fails           *)
(* generatedImage is null.                                                 *)
C24_GenerateCompletes ==
  /\ \A i \in 1 .. MaxGenerate :
       (i \in InFlight) ~> (i \notin InFlight /\ ~isGenerating)
  /\ [][\A i \in 1 .. Len(genLog) :
          AnswerStep(i) =>
            /\ ~isGenerating'
            /\ genLog'[i].result = "image" => generatedImage' = i
            /\ genLog'[i].result = "failed" => generatedImage' = NoImage]_vars

(* C25: the remote service is never called with a blank prompt or a blank  *)
(* text: with a blank prompt the Generate action changes nothing, with a   *)
(* blank text generateStyledText is not invoked.                           *)
C25_NoCallWithBlankInput ==
  /\ [](\A i \in 1 .. Len(genLog) :
          /\ (genLog[i].invoked >= 1 \/ genLog[i].requests >= 1) =>
               ~IsBlank(genLog[i].prompt) /\ ~IsBlank(genLog[i].text)
          /\ IsBlank(genLog[i].prompt) => genLog[i].result = "nothing")
  /\ [][\A via \in {"button", "enter"} :
          (IsBlank(prompt) /\ handleGenerateBanner(via)) =>
            UNCHANGED <<text, prompt, isGenerating, generatedImage,
                        apiKeyError>>]_vars

C25_Witness ==
  /\ apiKey
  /\ Len(genLog) >= 2
  /\ genLog[1].prompt = <<" ">>
  /\ genLog[1].result = "nothing"
  /\ genLog[2].text = <<" ">>
  /\ ~IsBlank(genLog[2].prompt)
  /\ genLog[2].invoked = 0
  /\ genLog[2].result = "failed"

(* C26: at most one styling request is in flight, isGenerating is true     *)
(* exactly while a request is outstanding, and the image shown is the      *)
(* answer to the request started last.                                     *)
C26_OneRequestInFlight ==
  /\ Cardinality(InFlight) <= 1
  /\ isGenerating <=> InFlight # {}
  /\ generatedImage # NoImage =>
       \A i \in 1 .. Len(genLog) :
         genLog[i].requests >= 1 => i <= generatedImage

(* C27: after any sequence of editor saves and imports, every glyph's      *)
(* gridState is undefined or a list of keys of cells of the grid.          *)
C27_GridStateValid ==
  \A ch \in Chars :
    \/ glyphs[ch].gridState.t = "undefined"
    \/ /\ glyphs[ch].gridState.t = "array"
       /\ Range(glyphs[ch].gridState.v) \subseteq ValidKeys

(***************************************************************************)
(* Vocabulary of the mask claim.                                           *)
(***************************************************************************)
(* A gridState that holds the keys of the set, in some order. *)
RECURSIVE ListOf(_)
ListOf(S) ==
  IF S = {} THEN <<>>
  ELSE LET x == CHOOSE x \in S : TRUE IN <<x>> \o ListOf(S \ {x})

(* Where renderTextToBase64 puts the first glyph, and the origin. *)
MaskStarts == {<<0, 0>>, <<Px(PADDING_X), Px(PADDING_Y)>>}

(* A point of the screen's GlyphDisplay, in the mask. *)
ToMask(pt, start) == <<start[1] + SCALE * pt[1], start[2] + SCALE * pt[2]>>

(* What the screen shows for the glyph whose last render is in polygons. *)
ScreenCells == {CellOfKey(polygons[i].key) : i \in Drawn}

ScreenPaths(start) ==
  { [cell |-> CellOfKey(polygons[i].key),
     points |-> [n \in 1 .. 3 |-> ToMask(polygons[i].points[n], start)]] :
      i \in Drawn }

(* C28: for every glyph state the mask and the screen draw the same        *)
(* triangles, the mask's being the screen's scaled by SCALE and moved to   *)
(* the glyph's place, and the mask falls back to plain text exactly when   *)
(* the screen shows the fallback character.                                *)
C28_MaskMatchesScreen ==
  /\ drawGlyph(JUndefined, 0, 0).fallback <=> ScreenFallback(JUndefined)
  /\ \A start \in MaskStarts :
       LET gridState == JArray(ListOf(activeCells))
           mask == drawGlyph(gridState, start[1], start[2])
       IN  /\ mask.fallback <=> ScreenFallback(gridState)
           /\ {p.cell : p \in mask.paths} = ScreenCells
           /\ ~mask.fallback => mask.paths = ScreenPaths(start)
====
